---------------------------- MODULE Spec2Model ----------------------------
(***************************************************************************)
(* A model of tijs/atproto-storage: the durable TTL key-value store        *)
(* (SQLiteStorage, src/src/sqlite.ts) running against a SQLite table       *)
(* through the SQLiteAdapter contract.                                     *)
(*                                                                         *)
(* Text is a sequence of one-character strings, so that serialisation and  *)
(* parsing are computed and not assumed.  A JavaScript value is a record   *)
(* tagged by t: "null", "bool", "num", "str", "arr" (items), "obj" (props, *)
(* a sequence of <<name, value>> pairs in insertion order).                *)
(*                                                                         *)
(* A time is a JavaScript number counted in half milliseconds: Date.now()  *)
(* is always a whole millisecond (an even count), while now + ttl * 1000   *)
(* need not be.                                                            *)
(***************************************************************************)
EXTENDS Integers, Sequences, FiniteSets, TLC

(***************************************************************************)
(* JavaScript values and text                                              *)
(***************************************************************************)
Null == [t |-> "null"]

Bool(b) == [t |-> "bool", b |-> b]

Num(n) == [t |-> "num", n |-> n]

Str(s) == [t |-> "str", s |-> s]

Arr(items) == [t |-> "arr", items |-> items]

Obj(props) == [t |-> "obj", props |-> props]

DigitChars == <<"0", "1", "2", "3", "4", "5", "6", "7", "8", "9">>

IsDigit(c) == \E d \in 1..10 : DigitChars[d] = c

DigitValue(c) == (CHOOSE d \in 1..10 : DigitChars[d] = c) - 1

IsWhitespace(c) == c = " "

RECURSIVE NatToString(_)
NatToString(n) ==
  IF n < 10 THEN <<DigitChars[n + 1]>>
  ELSE NatToString(n \div 10) \o <<DigitChars[(n % 10) + 1]>>

\* Number.prototype.toString of an integer.
NumberToString(n) == IF n < 0 THEN <<"-">> \o NatToString(0 - n) ELSE NatToString(n)

\* JSON.stringify of a string: quotes around it, quote and backslash escaped.
RECURSIVE EscapeChars(_)
EscapeChars(s) ==
  IF s = <<>> THEN <<>>
  ELSE (IF Head(s) = "\"" \/ Head(s) = "\\" THEN <<"\\", Head(s)>> ELSE <<Head(s)>>)
       \o EscapeChars(Tail(s))

QuoteString(s) == <<"\"">> \o EscapeChars(s) \o <<"\"">>

RECURSIVE JSONstringify(_)
RECURSIVE StringifyItems(_)
RECURSIVE StringifyProps(_)
StringifyItems(items) ==
  IF items = <<>> THEN <<>>
  ELSE JSONstringify(Head(items))
       \o (IF Tail(items) = <<>> THEN <<>> ELSE <<",">> \o StringifyItems(Tail(items)))

StringifyProps(props) ==
  IF props = <<>> THEN <<>>
  ELSE QuoteString(Head(props)[1]) \o <<":">> \o JSONstringify(Head(props)[2])
       \o (IF Tail(props) = <<>> THEN <<>> ELSE <<",">> \o StringifyProps(Tail(props)))

JSONstringify(v) ==
  CASE v.t = "null" -> <<"n", "u", "l", "l">>
    [] v.t = "bool" -> IF v.b THEN <<"t", "r", "u", "e">> ELSE <<"f", "a", "l", "s", "e">>
    [] v.t = "num" -> NumberToString(v.n)
    [] v.t = "str" -> QuoteString(v.s)
    [] v.t = "arr" -> <<"[">> \o StringifyItems(v.items) \o <<"]">>
    [] v.t = "obj" -> <<"{">> \o StringifyProps(v.props) \o <<"}">>

(***************************************************************************)
(* JSON.parse: a recursive-descent parser.  A parse result is              *)
(* [ok, v, next]: next is the position after the value.                    *)
(***************************************************************************)
ParseFail == [ok |-> FALSE, v |-> Null, next |-> 0]

ParseOk(v, next) == [ok |-> TRUE, v |-> v, next |-> next]

RECURSIVE SkipWhitespace(_, _)
SkipWhitespace(s, i) ==
  IF i <= Len(s) /\ IsWhitespace(s[i]) THEN SkipWhitespace(s, i + 1) ELSE i

HasLiteralAt(s, i, lit) ==
  /\ i + Len(lit) - 1 <= Len(s)
  /\ \A j \in 1..Len(lit) : s[i + j - 1] = lit[j]

\* The digits from position i on: [n, next].
RECURSIVE ScanDigits(_, _, _)
ScanDigits(s, i, acc) ==
  IF i <= Len(s) /\ IsDigit(s[i]) THEN ScanDigits(s, i + 1, acc * 10 + DigitValue(s[i]))
  ELSE [n |-> acc, next |-> i]

\* number := -? (0 | [1-9][0-9]*); the text of this model holds no fraction
\* or exponent inside a value.
ParseNumber(s, i) ==
  LET neg == i <= Len(s) /\ s[i] = "-"
      j == IF neg THEN i + 1 ELSE i
  IN IF ~(j <= Len(s) /\ IsDigit(s[j])) THEN ParseFail
     ELSE IF s[j] = "0" THEN ParseOk(Num(0), j + 1)
     ELSE LET d == ScanDigits(s, j, 0)
          IN ParseOk(Num(IF neg THEN 0 - d.n ELSE d.n), d.next)

\* The characters of a string from position i (after the opening quote).
RECURSIVE ParseStringBody(_, _, _)
ParseStringBody(s, i, acc) ==
  IF i > Len(s) THEN ParseFail
  ELSE IF s[i] = "\"" THEN ParseOk(Str(acc), i + 1)
  ELSE IF s[i] = "\\"
       THEN IF i + 1 <= Len(s) /\ (s[i + 1] = "\"" \/ s[i + 1] = "\\")
            THEN ParseStringBody(s, i + 2, Append(acc, s[i + 1]))
            ELSE ParseFail
  ELSE ParseStringBody(s, i + 1, Append(acc, s[i]))

\* Object.defineProperty order: a repeated name keeps its first position
\* and takes the last value.
SetProp(props, name, v) ==
  IF \E k \in 1..Len(props) : props[k][1] = name
  THEN [k \in 1..Len(props) |-> IF props[k][1] = name THEN <<name, v>> ELSE props[k]]
  ELSE Append(props, <<name, v>>)

RECURSIVE ParseValue(_, _)
RECURSIVE ParseItems(_, _, _)
RECURSIVE ParseProps(_, _, _)
\* After "[" or ",": a value, then "," or "]".
ParseItems(s, i, acc) ==
  LET r == ParseValue(s, i)
  IN IF ~r.ok THEN ParseFail
     ELSE LET j == SkipWhitespace(s, r.next)
          IN IF j > Len(s) THEN ParseFail
             ELSE IF s[j] = "," THEN ParseItems(s, j + 1, Append(acc, r.v))
             ELSE IF s[j] = "]" THEN ParseOk(Arr(Append(acc, r.v)), j + 1)
             ELSE ParseFail

\* After "{" or ",": "name" : value, then "," or "}".
ParseProps(s, i, acc) ==
  LET j == SkipWhitespace(s, i)
  IN IF ~(j <= Len(s) /\ s[j] = "\"") THEN ParseFail
     ELSE LET name == ParseStringBody(s, j + 1, <<>>)
          IN IF ~name.ok THEN ParseFail
             ELSE LET c == SkipWhitespace(s, name.next)
                  IN IF ~(c <= Len(s) /\ s[c] = ":") THEN ParseFail
                     ELSE LET r == ParseValue(s, c + 1)
                          IN IF ~r.ok THEN ParseFail
                             ELSE LET e == SkipWhitespace(s, r.next)
                                      props == SetProp(acc, name.v.s, r.v)
                                  IN IF e > Len(s) THEN ParseFail
                                     ELSE IF s[e] = "," THEN ParseProps(s, e + 1, props)
                                     ELSE IF s[e] = "}" THEN ParseOk(Obj(props), e + 1)
                                     ELSE ParseFail

ParseValue(s, i) ==
  LET j == SkipWhitespace(s, i)
  IN IF j > Len(s) THEN ParseFail
     ELSE IF HasLiteralAt(s, j, <<"n", "u", "l", "l">>) THEN ParseOk(Null, j + 4)
     ELSE IF HasLiteralAt(s, j, <<"t", "r", "u", "e">>) THEN ParseOk(Bool(TRUE), j + 4)
     ELSE IF HasLiteralAt(s, j, <<"f", "a", "l", "s", "e">>) THEN ParseOk(Bool(FALSE), j + 5)
     ELSE IF s[j] = "\"" THEN ParseStringBody(s, j + 1, <<>>)
     ELSE IF s[j] = "-" \/ IsDigit(s[j]) THEN ParseNumber(s, j)
     ELSE IF s[j] = "["
          THEN LET k == SkipWhitespace(s, j + 1)
               IN IF k <= Len(s) /\ s[k] = "]" THEN ParseOk(Arr(<<>>), k + 1)
                  ELSE ParseItems(s, j + 1, <<>>)
     ELSE IF s[j] = "{"
          THEN LET k == SkipWhitespace(s, j + 1)
               IN IF k <= Len(s) /\ s[k] = "}" THEN ParseOk(Obj(<<>>), k + 1)
                  ELSE ParseProps(s, j + 1, <<>>)
     ELSE ParseFail

\* JSON.parse(text): [ok, v]; ok = FALSE is the SyntaxError it throws.
JSONparse(s) ==
  LET r == ParseValue(s, 1)
  IN IF r.ok /\ SkipWhitespace(s, r.next) > Len(s) THEN [ok |-> TRUE, v |-> r.v]
     ELSE [ok |-> FALSE, v |-> Null]

(***************************************************************************)
(* Numbers and their text (times are counted in half milliseconds)         *)
(***************************************************************************)
\* Number.prototype.toString of a time: "12" or "12.5".
TimeToString(x) ==
  NatToString(x \div 2) \o (IF x % 2 = 1 THEN <<".", "5">> ELSE <<>>)

\* The integer a text starts with, after optional whitespace and sign:
\* [found, n]; found = FALSE when no digit is there.
IntegerPrefix(s) ==
  LET i == SkipWhitespace(s, 1)
      neg == i <= Len(s) /\ s[i] = "-"
      j == IF neg \/ (i <= Len(s) /\ s[i] = "+") THEN i + 1 ELSE i
      d == ScanDigits(s, j, 0)
  IN [found |-> d.next > j, n |-> IF neg THEN 0 - d.n ELSE d.n]

\* parseInt(text, 10): [nan, n], n a time (whole milliseconds).
parseInt(s) ==
  LET p == IntegerPrefix(s) IN [nan |-> ~p.found, n |-> 2 * p.n]

\* SQLite's CAST(text AS INTEGER): the integer prefix of the text, else 0.
SqlCastInteger(s) ==
  LET p == IntegerPrefix(s) IN IF p.found THEN 2 * p.n ELSE 0

(***************************************************************************)
(* Bounds and inputs                                                       *)
(***************************************************************************)
\* Date.now() at construction, in milliseconds.
StartMs == 9

\* The clock advances at most this many milliseconds.
MaxTicks == 1

\* One caller, which awaits each call before it makes the next.
Clients == {"c1"}

\* The callers that share a store without awaiting one another.
Callers == {"c1", "c2"}

\* The calls concurrent callers make in total.
MaxCalls == 3

Keys == {"k1", "k2"}

\* The values a caller stores: a string that is no JSON text, a string that
\* is one, and an object.
Values == {Str(<<"a">>), Str(<<"1">>), Obj(<< <<(<<"a">>), Num(1)>> >>)}

\* options.ttl * 1000 in half milliseconds: ttl = 0.0005 and 0.001.
TtlHalfMs == {1, 2}

NoOptions == [given |-> FALSE, ttl |-> 0]

Options == {NoOptions} \cup {[given |-> TRUE, ttl |-> t] : t \in TtlHalfMs}

(***************************************************************************)
(* The SQLite table behind the adapter                                     *)
(***************************************************************************)
SqlNull == <<"NULL">>

NoRow == [present |-> FALSE]

Row(value, expires_at, created_at, updated_at) ==
  [present |-> TRUE, value |-> value, expires_at |-> expires_at,
   created_at |-> created_at, updated_at |-> updated_at]

\* An upsert whose DO UPDATE leaves expires_at out: the old expiration stays.
SqlUpsertKeepingExpiry(tbl, st) ==
  [tbl EXCEPT ![st.key] =
     IF tbl[st.key].present
     THEN [tbl[st.key] EXCEPT !.value = st.value, !.updated_at = st.updated_at]
     ELSE Row(st.value, st.expires_at, st.created_at, st.updated_at)]

\* INSERT OR REPLACE: the row of the key is replaced whole, created_at too.
SqlInsertOrReplace(tbl, st) ==
  [tbl EXCEPT ![st.key] = Row(st.value, st.expires_at, st.created_at, st.updated_at)]

\* INSERT ... ON CONFLICT(key) DO UPDATE SET value, expires_at, updated_at.
SqlUpsert(tbl, st) ==
  [tbl EXCEPT ![st.key] =
     IF tbl[st.key].present
     THEN [tbl[st.key] EXCEPT !.value = st.value, !.expires_at = st.expires_at,
                              !.updated_at = st.updated_at]
     ELSE Row(st.value, st.expires_at, st.created_at, st.updated_at)]

\* The SELECT without its WHERE clause: the first row of the table.
SqlSelectAnyRow(tbl, st) ==
  IF \E k \in DOMAIN tbl : tbl[k].present
  THEN LET k == CHOOSE k \in DOMAIN tbl : tbl[k].present
       IN << <<tbl[k].value, tbl[k].expires_at>> >>
  ELSE <<>>

\* SELECT value, expires_at ... WHERE key = ? LIMIT 1.
SqlSelect(tbl, st) ==
  IF tbl[st.key].present
  THEN << <<tbl[st.key].value, tbl[st.key].expires_at>> >>
  ELSE <<>>

\* The DELETE by key with the filter of cleanup added: only an expiring row goes.
SqlDeleteExpiring(tbl, st) ==
  [tbl EXCEPT ![st.key] = IF @.present /\ @.expires_at # SqlNull THEN NoRow ELSE @]

\* The DELETE by key without its WHERE clause: every row goes.
SqlDeleteAll(tbl, st) == [k \in DOMAIN tbl |-> NoRow]

\* DELETE ... WHERE key = ?.
SqlDelete(tbl, st) == [tbl EXCEPT ![st.key] = NoRow]

\* The filter without its comparison: every row that carries an expires_at.
SqlExpiringFilter(row, now) ==
  /\ row.present
  /\ row.expires_at # SqlNull

\* WHERE expires_at IS NOT NULL AND CAST(expires_at AS INTEGER) <= ?.
SqlExpiredFilter(row, now) ==
  /\ row.present
  /\ row.expires_at # SqlNull
  /\ SqlCastInteger(row.expires_at) <= now

\* SELECT COUNT(*) ... WHERE (expired).
SqlCountExpired(tbl, st) ==
  << <<Cardinality({k \in DOMAIN tbl : SqlExpiredFilter(tbl[k], st.now)})>> >>

\* DELETE ... WHERE (expired).
SqlDeleteExpired(tbl, st) ==
  [k \in DOMAIN tbl |-> IF SqlExpiredFilter(tbl[k], st.now) THEN NoRow ELSE tbl[k]]

(***************************************************************************)
(* The store and its callers                                               *)
(***************************************************************************)
VARIABLES
  clock,        \* Date.now(), a whole number of milliseconds (in half ms)
  schema,       \* what the database holds of the schema: "table", "index"
  table,        \* the rows of the table, by key
  initialized,  \* SQLiteStorage.initialized
  call,         \* per caller: the last call: operation and arguments
  now,          \* per caller: the last call's const now (0: it read no clock)
  ret,          \* per caller: what the last call returned
  sent,         \* per caller: the statements the last call sent, in order
  written,      \* per key: the last set or delete the database executed
  data,         \* MemoryStorage.data: the entry of each key
  mret,         \* per caller: what the last call on the MemoryStorage returned
  msize,        \* per caller: storage.size as read right before that call
  lapsed,       \* per key: the backends whose get found it expired since its last set
  pc,           \* per caller: "idle", or the statement its call awaits
  stmt,         \* per caller: the statement in flight with its parameters
  count,        \* per caller: cleanup's const count
  calls,        \* the calls made so far by concurrent callers
  created,      \* how many CREATE TABLE and CREATE INDEX statements were sent
  logger,       \* the logger option of a second SQLiteStorage
  ltable,       \* the rows of the table of the second store, by key
  linitialized, \* initialized of the second store
  lret,         \* per caller: what the last call on the second store returned
  lsent         \* per caller: the statements that call sent, in order

\* The SQLiteStorage, its database and its callers.
svars == <<clock, schema, table, initialized, call, now, ret, sent, written>>

\* The MemoryStorage, and what its caller noted of storage.size and of the
\* gets of the two backends.
mvars == <<data, mret, msize, lapsed>>

\* The calls in progress of concurrent callers.
avars == <<pc, stmt, count, calls, created>>

\* A second SQLiteStorage, on a database of its own, with a logger option.
lvars == <<logger, ltable, linitialized, lret, lsent>>

vars == <<svars, mvars, avars, lvars>>

Undefined == [t |-> "undefined"]

NoCall == [op |-> "none", key |-> "", value |-> Undefined, options |-> NoOptions]

\* existed: the key had a row when the statement ran.
NoWrite ==
  [op |-> "none", value |-> Undefined, options |-> NoOptions, now |-> 0,
   existed |-> FALSE]

\* MemoryStorage.data has no entry for the key.
NoItem == [present |-> FALSE]

\* A StorageEntry; expiresAt is undefined when defined is FALSE.
Item(value, expiresAt) == [present |-> TRUE, value |-> value, expiresAt |-> expiresAt]

NoExpiry == [defined |-> FALSE, n |-> 0]

NoStmt == [sql |-> "none"]

\* The calls of this.logger.log in SQLiteStorage, by place.
LogSites ==
  {"get", "get_notfound", "get_expired", "get_parsed", "get_raw", "set",
   "set_stored", "delete", "cleanup", "cleanup_deleted"}

\* A logger, by the calls of log that throw: the default noopLogger and
\* console throw at none, a broken logger at every one, and one logger
\* throws at "Returning parsed value" only.
Loggers == {{}, LogSites, {"get_parsed"}}

\* The state after construction, the second store with logger option l.
Constructed(l) ==
  /\ logger = l
  /\ ltable = [k \in Keys |-> NoRow]
  /\ linitialized = FALSE
  /\ lret = [c \in Clients |-> Undefined]
  /\ lsent = [c \in Clients |-> <<>>]
  /\ data = [k \in Keys |-> NoItem]
  /\ mret = [c \in Clients |-> Undefined]
  /\ msize = [c \in Clients |-> 0]
  /\ lapsed = [k \in Keys |-> {}]
  /\ pc = [c \in Callers |-> "idle"]
  /\ stmt = [c \in Callers |-> NoStmt]
  /\ count = [c \in Callers |-> 0]
  /\ calls = 0
  /\ created = [table |-> 0, index |-> 0]
  /\ clock = 2 * StartMs
  /\ schema = {}
  /\ table = [k \in Keys |-> NoRow]
  /\ initialized = FALSE
  /\ call = [c \in Callers |-> NoCall]
  /\ now = [c \in Callers |-> 0]
  /\ ret = [c \in Callers |-> Undefined]
  /\ sent = [c \in Callers |-> <<>>]
  /\ written = [k \in Keys |-> NoWrite]

\* new SQLiteStorage(adapter): the logger is the noopLogger.
Init == Constructed({})

\* options?.ttl !== undefined: a ttl of 0 counts as given.
TtlDefined(options) == options.given

\* options?.ttl is truthy.
TtlGiven(options) == options.given /\ options.ttl # 0

\* set: const expiresAt = options?.ttl ? now + options.ttl * 1000 : null,
\* then expiresAt !== null ? expiresAt.toString() : null.
ExpiresAtParam(options, t) ==
  IF TtlGiven(options) THEN TimeToString(t + options.ttl) ELSE SqlNull

\* set: typeof value === "string" ? value : JSON.stringify(value).
SerializedValue(value) == IF value.t = "str" THEN value.s ELSE JSONstringify(value)

\* The statement a call sends once init() has returned, built from the
\* clock reading taken at that moment.
BodyStmt(cl, t) ==
  CASE cl.op = "get" -> [sql |-> "select", key |-> cl.key]
    [] cl.op = "set" ->
         [sql |-> "upsert", key |-> cl.key, value |-> SerializedValue(cl.value),
          expires_at |-> ExpiresAtParam(cl.options, t),
          created_at |-> TimeToString(t), updated_at |-> TimeToString(t)]
    [] cl.op = "delete" -> [sql |-> "delete", key |-> cl.key]
    [] cl.op = "cleanup" -> [sql |-> "count", now |-> t]

\* get with a strict boundary: expired only when expiresAt < now.
GetResultStrict(rows, t) ==
  IF Len(rows) = 0 THEN Null
  ELSE LET expiresAtRaw == rows[1][2]
           expiresAt == IF expiresAtRaw # SqlNull THEN parseInt(expiresAtRaw)
                        ELSE [nan |-> TRUE, n |-> 0]
       IN IF expiresAtRaw # SqlNull /\ ~expiresAt.nan /\ expiresAt.n < t THEN Null
          ELSE IF JSONparse(rows[1][1]).ok THEN JSONparse(rows[1][1]).v
          ELSE Str(rows[1][1])

\* get for which an entry is expired at the instant of its expires_at only.
GetResultAtInstant(rows, t) ==
  IF Len(rows) = 0 THEN Null
  ELSE LET expiresAtRaw == rows[1][2]
           expiresAt == IF expiresAtRaw # SqlNull THEN parseInt(expiresAtRaw)
                        ELSE [nan |-> TRUE, n |-> 0]
       IN IF expiresAtRaw # SqlNull /\ ~expiresAt.nan /\ expiresAt.n = t THEN Null
          ELSE IF JSONparse(rows[1][1]).ok THEN JSONparse(rows[1][1]).v
          ELSE Str(rows[1][1])

\* get, from the rows of its SELECT to its return value.
GetResult(rows, t) ==
  IF Len(rows) = 0 THEN Null
  ELSE LET expiresAtRaw == rows[1][2]
           expiresAt == IF expiresAtRaw # SqlNull THEN parseInt(expiresAtRaw)
                        ELSE [nan |-> TRUE, n |-> 0]
       IN IF expiresAtRaw # SqlNull /\ ~expiresAt.nan /\ expiresAt.n <= t THEN Null
          ELSE IF JSONparse(rows[1][1]).ok THEN JSONparse(rows[1][1]).v
          ELSE Str(rows[1][1])

\* The record of the set or delete the database has just executed for c.
WrittenBy(cl, t) ==
  IF cl.op = "set"
  THEN [op |-> "set", value |-> cl.value, options |-> cl.options, now |-> t,
        existed |-> table[cl.key].present]
  ELSE [NoWrite EXCEPT !.op = "delete", !.existed = table[cl.key].present]

(***************************************************************************)
(* The public methods, each call run to its return (one caller awaits its  *)
(* call before anything else happens).                                     *)
(***************************************************************************)
\* await this.init(): the two schema statements, unless initialized.
InitStmts == IF initialized THEN <<>> ELSE <<"create_table", "create_index">>

\* The part every method shares: init(), then const now = Date.now()
\* (delete reads no clock).
Called(c, cl) ==
  /\ call' = [call EXCEPT ![c] = cl]
  /\ schema' = IF initialized THEN schema ELSE schema \cup {"table", "index"}
  /\ initialized' = TRUE
  /\ now' = [now EXCEPT ![c] = IF cl.op = "delete" THEN 0 ELSE clock]
  /\ UNCHANGED clock

\* A get that removes the row it finds expired, as MemoryStorage.get does.
get_evicting(c, key) ==
  LET cl == [op |-> "get", key |-> key, value |-> Undefined, options |-> NoOptions]
      rows == SqlSelect(table, BodyStmt(cl, clock))
  IN /\ Called(c, cl)
     /\ ret' = [ret EXCEPT ![c] = GetResult(rows, clock)]
     /\ sent' = [sent EXCEPT ![c] = InitStmts \o <<"select">>]
     /\ table' = IF Len(rows) > 0 /\ GetResult(rows, clock) = Null
                 THEN SqlDelete(table, BodyStmt(cl, clock)) ELSE table
     /\ UNCHANGED written

get(c, key) ==
  LET cl == [op |-> "get", key |-> key, value |-> Undefined, options |-> NoOptions]
  IN /\ Called(c, cl)
     /\ ret' = [ret EXCEPT ![c] = GetResult(SqlSelect(table, BodyStmt(cl, clock)), clock)]
     /\ sent' = [sent EXCEPT ![c] = InitStmts \o <<"select">>]
     /\ UNCHANGED <<table, written>>

set(c, key, value, options) ==
  LET cl == [op |-> "set", key |-> key, value |-> value, options |-> options]
  IN /\ Called(c, cl)
     /\ table' = SqlUpsert(table, BodyStmt(cl, clock))
     /\ written' = [written EXCEPT ![key] = WrittenBy(cl, clock)]
     /\ ret' = [ret EXCEPT ![c] = Undefined]
     /\ sent' = [sent EXCEPT ![c] = InitStmts \o <<"upsert">>]

delete(c, key) ==
  LET cl == [op |-> "delete", key |-> key, value |-> Undefined, options |-> NoOptions]
  IN /\ Called(c, cl)
     /\ table' = SqlDelete(table, BodyStmt(cl, clock))
     /\ written' = [written EXCEPT ![key] = WrittenBy(cl, clock)]
     /\ ret' = [ret EXCEPT ![c] = Undefined]
     /\ sent' = [sent EXCEPT ![c] = InitStmts \o <<"delete">>]

\* A cleanup without the guard count > 0: the DELETE is always sent.
cleanup_unguarded(c) ==
  LET cl == [op |-> "cleanup", key |-> "", value |-> Undefined, options |-> NoOptions]
      n == SqlCountExpired(table, BodyStmt(cl, clock))[1][1]
  IN /\ Called(c, cl)
     /\ table' = SqlDeleteExpired(table, [sql |-> "delete_expired", now |-> clock])
     /\ sent' = [sent EXCEPT ![c] = InitStmts \o <<"count", "delete_expired">>]
     /\ ret' = [ret EXCEPT ![c] = Num(n)]
     /\ UNCHANGED written

\* const count = countRows[0]?.[0] ?? 0; the DELETE is sent when count > 0.
cleanup(c) ==
  LET cl == [op |-> "cleanup", key |-> "", value |-> Undefined, options |-> NoOptions]
      n == SqlCountExpired(table, BodyStmt(cl, clock))[1][1]
  IN /\ Called(c, cl)
     /\ table' = IF n > 0
                 THEN SqlDeleteExpired(table, [sql |-> "delete_expired", now |-> clock])
                 ELSE table
     /\ sent' = [sent EXCEPT ![c] =
                   InitStmts \o <<"count">> \o (IF n > 0 THEN <<"delete_expired">> ELSE <<>>)]
     /\ ret' = [ret EXCEPT ![c] = Num(n)]
     /\ UNCHANGED written

\* A millisecond passes.
Tick ==
  /\ clock < 2 * (StartMs + MaxTicks)
  /\ clock' = clock + 2
  /\ UNCHANGED <<schema, table, initialized, call, now, ret, sent, written>>
  /\ UNCHANGED <<mvars, avars, lvars>>

\* The SQLiteStorage alone, one caller.
Next ==
  \/ Tick
  \/ \E c \in Clients, k \in Keys : get(c, k) /\ UNCHANGED <<mvars, avars, lvars>>
  \/ \E c \in Clients, k \in Keys, v \in Values, o \in Options :
       set(c, k, v, o) /\ UNCHANGED <<mvars, avars, lvars>>
  \/ \E c \in Clients, k \in Keys : delete(c, k) /\ UNCHANGED <<mvars, avars, lvars>>
  \/ \E c \in Clients : cleanup(c) /\ UNCHANGED <<mvars, avars, lvars>>

Spec == Init /\ [][Next]_vars

(***************************************************************************)
(* MemoryStorage (src/src/memory.ts).  Its methods are synchronous: each   *)
(* returns an already resolved promise.                                    *)
(***************************************************************************)
\* set: options?.ttl ? Date.now() + options.ttl * 1000 : undefined.
MemoryExpiresAt(options, t) ==
  IF TtlGiven(options) THEN [defined |-> TRUE, n |-> t + options.ttl] ELSE NoExpiry

\* get: item.expiresAt && item.expiresAt <= Date.now().
MemoryExpired(item, t) ==
  item.expiresAt.defined /\ item.expiresAt.n # 0 /\ item.expiresAt.n <= t

MemoryStorage_get(c, key) ==
  LET item == data[key]
  IN IF ~item.present
     THEN mret' = [mret EXCEPT ![c] = Null] /\ UNCHANGED data
     ELSE IF MemoryExpired(item, clock)
     THEN /\ data' = [data EXCEPT ![key] = NoItem]
          /\ mret' = [mret EXCEPT ![c] = Null]
     ELSE mret' = [mret EXCEPT ![c] = item.value] /\ UNCHANGED data

MemoryStorage_set(c, key, value, options) ==
  /\ data' = [data EXCEPT ![key] = Item(value, MemoryExpiresAt(options, clock))]
  /\ mret' = [mret EXCEPT ![c] = Undefined]

MemoryStorage_delete(c, key) ==
  /\ data' = [data EXCEPT ![key] = NoItem]
  /\ mret' = [mret EXCEPT ![c] = Undefined]

\* A clear that drops the expired entries only.
MemoryStorage_clear_expired(c) ==
  /\ data' = [k \in Keys |->
               IF data[k].present /\ MemoryExpired(data[k], clock) THEN NoItem
               ELSE data[k]]
  /\ mret' = [mret EXCEPT ![c] = Undefined]

\* clear(): this.data.clear().
MemoryStorage_clear(c) ==
  /\ data' = [k \in Keys |-> NoItem]
  /\ mret' = [mret EXCEPT ![c] = Undefined]

\* get size(): this.data.size.
MemoryStorage_size == Cardinality({k \in Keys : data[k].present})

\* The values stored in both backends: a string that is no JSON text and
\* one that is.
BothValues == {Str(<<"a">>), Str(<<"1">>)}

\* The two backends side by side: one caller makes each get, set and delete
\* on both, at the same clock reading; cleanup exists on the durable one.
NextBoth ==
  \/ Tick
  \/ \E c \in Clients, k \in Keys :
       get(c, k) /\ MemoryStorage_get(c, k) /\ UNCHANGED <<msize, lapsed, avars, lvars>>
  \/ \E c \in Clients, k \in Keys, v \in BothValues, o \in Options :
       set(c, k, v, o) /\ MemoryStorage_set(c, k, v, o)
         /\ UNCHANGED <<msize, lapsed, avars, lvars>>
  \/ \E c \in Clients, k \in Keys :
       delete(c, k) /\ MemoryStorage_delete(c, k) /\ UNCHANGED <<msize, lapsed, avars, lvars>>
  \/ \E c \in Clients : cleanup(c) /\ UNCHANGED <<mvars, avars, lvars>>

SpecBoth == Init /\ [][NextBoth]_vars

\* { ttl: 0 }.
TtlZero == [given |-> TRUE, ttl |-> 0]

\* No options, a ttl of 0, and ttl = 0.001.
TtlZeroOptions == {NoOptions, TtlZero, [given |-> TRUE, ttl |-> 2]}

\* The two backends side by side, with sets whose ttl is 0 among the calls.
NextTtlZero ==
  \/ Tick
  \/ \E c \in Clients, k \in Keys :
       get(c, k) /\ MemoryStorage_get(c, k) /\ UNCHANGED <<msize, lapsed, avars, lvars>>
  \/ \E c \in Clients, k \in Keys, v \in BothValues, o \in TtlZeroOptions :
       set(c, k, v, o) /\ MemoryStorage_set(c, k, v, o)
         /\ UNCHANGED <<msize, lapsed, avars, lvars>>
  \/ \E c \in Clients, k \in Keys :
       delete(c, k) /\ MemoryStorage_delete(c, k) /\ UNCHANGED <<msize, lapsed, avars, lvars>>
  \/ \E c \in Clients : cleanup(c) /\ UNCHANGED <<mvars, avars, lvars>>

SpecTtlZero == Init /\ [][NextTtlZero]_vars

\* The backends whose get of the key, at time t, takes the branch of an
\* expired entry.
FoundExpired(key, t) ==
  (IF /\ table[key].present
      /\ table[key].expires_at # SqlNull
      /\ ~parseInt(table[key].expires_at).nan
      /\ parseInt(table[key].expires_at).n <= t
   THEN {"sqlite"} ELSE {})
    \cup (IF data[key].present /\ MemoryExpired(data[key], t) THEN {"memory"} ELSE {})

\* The two backends side by side, the caller noting which gets found the
\* entry expired; a set of the key starts afresh.
NextLapsed ==
  \/ Tick
  \/ \E c \in Clients, k \in Keys :
       /\ get(c, k) /\ MemoryStorage_get(c, k)
       /\ lapsed' = [lapsed EXCEPT ![k] = @ \cup FoundExpired(k, clock)]
       /\ UNCHANGED <<msize, avars, lvars>>
  \/ \E c \in Clients, k \in Keys, v \in BothValues, o \in Options :
       /\ set(c, k, v, o) /\ MemoryStorage_set(c, k, v, o)
       /\ lapsed' = [lapsed EXCEPT ![k] = {}]
       /\ UNCHANGED <<msize, avars, lvars>>
  \/ \E c \in Clients, k \in Keys :
       delete(c, k) /\ MemoryStorage_delete(c, k) /\ UNCHANGED <<msize, lapsed, avars, lvars>>
  \/ \E c \in Clients : cleanup(c) /\ UNCHANGED <<mvars, avars, lvars>>

SpecLapsed == Init /\ [][NextLapsed]_vars

\* A caller of the MemoryStorage alone: it reads storage.size, then makes
\* the call.
MemoryCalled(c, op, key, value, options) ==
  /\ call' = [call EXCEPT ![c] =
                [op |-> op, key |-> key, value |-> value, options |-> options]]
  /\ msize' = [msize EXCEPT ![c] = MemoryStorage_size]
  /\ UNCHANGED lapsed
  /\ UNCHANGED <<clock, schema, table, initialized, now, ret, sent, written>>
  /\ UNCHANGED <<avars, lvars>>

NextMemory ==
  \/ Tick
  \/ \E c \in Clients, k \in Keys :
       MemoryStorage_get(c, k) /\ MemoryCalled(c, "get", k, Undefined, NoOptions)
  \/ \E c \in Clients, k \in Keys, v \in BothValues, o \in Options :
       MemoryStorage_set(c, k, v, o) /\ MemoryCalled(c, "set", k, v, o)
  \/ \E c \in Clients, k \in Keys :
       MemoryStorage_delete(c, k) /\ MemoryCalled(c, "delete", k, Undefined, NoOptions)
  \/ \E c \in Clients :
       MemoryStorage_clear(c) /\ MemoryCalled(c, "clear", "", Undefined, NoOptions)

SpecMemory == Init /\ [][NextMemory]_vars

(***************************************************************************)
(* SQLiteStorage under concurrent callers.  A public method runs up to its *)
(* next await of adapter.execute in one step; the statement is then in     *)
(* flight until the database runs it (or the adapter rejects it), and the  *)
(* method goes on from there.  Callers do not await one another.           *)
(***************************************************************************)
AsyncKeys == {"k1"}

AsyncValues == {Str(<<"a">>), Obj(<< <<(<<"a">>), Num(1)>> >>)}

\* No ttl, and ttl = 0.001.
AsyncOptions == {NoOptions, [given |-> TRUE, ttl |-> 2]}

\* What adapter.execute rejects with.
Errors == {"SQLITE_BUSY", "SQLITE_IOERR"}

\* The promise of the call is still pending.
Pending == [t |-> "pending"]

\* The promise of the call was rejected with e.
Rejected(e) == [t |-> "error", e |-> e]

\* An init without its first line: it never returns at once.
init_neverReturnsAtOnce == FALSE

\* init: if (this.initialized) return.
init_returnsAtOnce == initialized

\* The rest of a public method after await this.init(): read the clock and
\* send the method's first statement.
SendBody(c, cl) ==
  /\ now' = [now EXCEPT ![c] = IF cl.op = "delete" THEN 0 ELSE clock]
  /\ stmt' = [stmt EXCEPT ![c] = BodyStmt(cl, clock)]
  /\ pc' = [pc EXCEPT ![c] = BodyStmt(cl, clock).sql]
  /\ sent' = [sent EXCEPT ![c] = Append(IF pc[c] = "idle" THEN <<>> ELSE @,
                                        BodyStmt(cl, clock).sql)]

\* A public method is called: init() returns at once when initialized, and
\* sends CREATE TABLE otherwise.
Invoke(c, op, key, value, options) ==
  LET cl == [op |-> op, key |-> key, value |-> value, options |-> options]
  IN /\ pc[c] = "idle"
     /\ calls < MaxCalls
     /\ calls' = calls + 1
     /\ call' = [call EXCEPT ![c] = cl]
     /\ ret' = [ret EXCEPT ![c] = Pending]
     /\ count' = [count EXCEPT ![c] = 0]
     /\ IF init_returnsAtOnce
        THEN SendBody(c, cl) /\ UNCHANGED created
        ELSE /\ pc' = [pc EXCEPT ![c] = "create_table"]
             /\ stmt' = [stmt EXCEPT ![c] = [sql |-> "create_table"]]
             /\ sent' = [sent EXCEPT ![c] = <<"create_table">>]
             /\ created' = [created EXCEPT !.table = @ + 1]
             /\ now' = [now EXCEPT ![c] = 0]
     /\ UNCHANGED <<clock, schema, table, initialized, written, mvars, lvars>>

begin_get(c, key) == Invoke(c, "get", key, Undefined, NoOptions)

begin_set(c, key, value, options) == Invoke(c, "set", key, value, options)

begin_delete(c, key) == Invoke(c, "delete", key, Undefined, NoOptions)

begin_cleanup(c) == Invoke(c, "cleanup", "", Undefined, NoOptions)

\* init with the flag set before the statements are awaited.
init_createTable_flagFirst(c) ==
  /\ pc[c] = "create_table"
  /\ schema' = schema \cup {"table"}
  /\ initialized' = TRUE
  /\ pc' = [pc EXCEPT ![c] = "create_index"]
  /\ stmt' = [stmt EXCEPT ![c] = [sql |-> "create_index"]]
  /\ sent' = [sent EXCEPT ![c] = Append(@, "create_index")]
  /\ created' = [created EXCEPT !.index = @ + 1]
  /\ UNCHANGED <<clock, table, call, now, ret, written, count, calls, mvars, lvars>>

\* init(): CREATE TABLE IF NOT EXISTS has run; send CREATE INDEX.
init_createTable(c) ==
  /\ pc[c] = "create_table"
  /\ schema' = schema \cup {"table"}
  /\ pc' = [pc EXCEPT ![c] = "create_index"]
  /\ stmt' = [stmt EXCEPT ![c] = [sql |-> "create_index"]]
  /\ sent' = [sent EXCEPT ![c] = Append(@, "create_index")]
  /\ created' = [created EXCEPT !.index = @ + 1]
  /\ UNCHANGED <<clock, table, initialized, call, now, ret, written, count, calls, mvars, lvars>>

\* init(): CREATE INDEX IF NOT EXISTS has run; this.initialized = true, and
\* the public method goes on to its own statement.
init_createIndex(c) ==
  /\ pc[c] = "create_index"
  /\ schema' = schema \cup {"index"}
  /\ initialized' = TRUE
  /\ SendBody(c, call[c])
  /\ UNCHANGED <<clock, table, call, ret, written, count, calls, created,
                 mvars, lvars>>

\* A public method returns v.
Return(c, v) ==
  /\ pc' = [pc EXCEPT ![c] = "idle"]
  /\ stmt' = [stmt EXCEPT ![c] = NoStmt]
  /\ ret' = [ret EXCEPT ![c] = v]

get_select(c) ==
  /\ pc[c] = "select"
  /\ Return(c, GetResult(SqlSelect(table, stmt[c]), now[c]))
  /\ UNCHANGED <<clock, schema, table, initialized, call, now, sent, written, count,
                 calls, created, mvars, lvars>>

set_upsert(c) ==
  /\ pc[c] = "upsert"
  /\ table' = SqlUpsert(table, stmt[c])
  /\ written' = [written EXCEPT ![call[c].key] = WrittenBy(call[c], now[c])]
  /\ Return(c, Undefined)
  /\ UNCHANGED <<clock, schema, initialized, call, now, sent, count, calls, created, mvars, lvars>>

delete_delete(c) ==
  /\ pc[c] = "delete"
  /\ table' = SqlDelete(table, stmt[c])
  /\ written' = [written EXCEPT ![call[c].key] = WrittenBy(call[c], now[c])]
  /\ Return(c, Undefined)
  /\ UNCHANGED <<clock, schema, initialized, call, now, sent, count, calls, created, mvars, lvars>>

\* cleanup, after its SELECT COUNT(*): const count = countRows[0]?.[0] ?? 0,
\* then the DELETE when count > 0.
cleanup_count(c) ==
  /\ pc[c] = "count"
  /\ LET n == SqlCountExpired(table, stmt[c])[1][1]
     IN /\ count' = [count EXCEPT ![c] = n]
        /\ IF n > 0
           THEN /\ pc' = [pc EXCEPT ![c] = "delete_expired"]
                /\ stmt' = [stmt EXCEPT ![c] = [sql |-> "delete_expired", now |-> now[c]]]
                /\ sent' = [sent EXCEPT ![c] = Append(@, "delete_expired")]
                /\ UNCHANGED ret
           ELSE /\ Return(c, Num(n))
                /\ UNCHANGED sent
  /\ UNCHANGED <<clock, schema, table, initialized, call, now, written, calls, created, mvars, lvars>>

\* A cleanup that returns the number of rows its DELETE removed.
cleanup_delete_returningChanges(c) ==
  /\ pc[c] = "delete_expired"
  /\ table' = SqlDeleteExpired(table, stmt[c])
  /\ Return(c, Num(Cardinality({k \in Keys : table[k].present /\ ~table'[k].present})))
  /\ UNCHANGED <<clock, schema, initialized, call, now, sent, written, count, calls,
                 created, mvars, lvars>>

\* cleanup, after its DELETE: return count.
cleanup_delete(c) ==
  /\ pc[c] = "delete_expired"
  /\ table' = SqlDeleteExpired(table, stmt[c])
  /\ Return(c, Num(count[c]))
  /\ UNCHANGED <<clock, schema, initialized, call, now, sent, written, count, calls,
                 created, mvars, lvars>>

\* A store that answers a rejection by sending the statement again.
execute_rejects_resending(c, e) ==
  /\ pc[c] # "idle"
  /\ sent' = [sent EXCEPT ![c] = Append(@, stmt[c].sql)]
  /\ UNCHANGED <<clock, schema, table, initialized, call, now, ret, written, pc, stmt,
                 count, calls, created, mvars, lvars>>

\* An init that has set its flag before the statement that is rejected.
execute_rejects_initialized(c, e) ==
  /\ pc[c] # "idle"
  /\ initialized' = TRUE
  /\ Return(c, Rejected(e))
  /\ UNCHANGED <<clock, schema, table, call, now, sent, written, count,
                 calls, created, mvars, lvars>>

\* adapter.execute rejects the statement in flight with e: no method catches
\* it, so the call is rejected with e.
execute_rejects(c, e) ==
  /\ pc[c] # "idle"
  /\ Return(c, Rejected(e))
  /\ UNCHANGED <<clock, schema, table, initialized, call, now, sent, written, count,
                 calls, created, mvars, lvars>>

NextAsync ==
  \/ Tick
  \/ \E c \in Callers, k \in AsyncKeys : begin_get(c, k)
  \/ \E c \in Callers, k \in AsyncKeys, v \in AsyncValues, o \in AsyncOptions :
       begin_set(c, k, v, o)
  \/ \E c \in Callers, k \in AsyncKeys : begin_delete(c, k)
  \/ \E c \in Callers : begin_cleanup(c)
  \/ \E c \in Callers : init_createTable(c)
  \/ \E c \in Callers : init_createIndex(c)
  \/ \E c \in Callers : get_select(c)
  \/ \E c \in Callers : set_upsert(c)
  \/ \E c \in Callers : delete_delete(c)
  \/ \E c \in Callers : cleanup_count(c)
  \/ \E c \in Callers : cleanup_delete(c)

SpecAsync == Init /\ [][NextAsync]_vars

\* One caller, each call awaited before the next, and an adapter that may
\* reject any statement.
NextRejecting ==
  \/ Tick
  \/ \E c \in Clients, k \in AsyncKeys : begin_get(c, k)
  \/ \E c \in Clients, k \in AsyncKeys, v \in AsyncValues, o \in AsyncOptions :
       begin_set(c, k, v, o)
  \/ \E c \in Clients, k \in AsyncKeys : begin_delete(c, k)
  \/ \E c \in Clients : begin_cleanup(c)
  \/ \E c \in Clients : init_createTable(c)
  \/ \E c \in Clients : init_createIndex(c)
  \/ \E c \in Clients : get_select(c)
  \/ \E c \in Clients : set_upsert(c)
  \/ \E c \in Clients : delete_delete(c)
  \/ \E c \in Clients : cleanup_count(c)
  \/ \E c \in Clients : cleanup_delete(c)
  \/ \E c \in Clients, e \in Errors : execute_rejects(c, e)

SpecRejecting == Init /\ [][NextRejecting]_vars

(***************************************************************************)
(* Two SQLiteStorage instances that differ in their logger option only,    *)
(* each on a database of its own, one caller making every call on both at  *)
(* the same clock reading.  The first store is the one above, with the     *)
(* default noopLogger; the second follows the same code with its calls of  *)
(* this.logger.log, any of which may throw.                                *)
(***************************************************************************)
\* What a throwing logger throws.
LoggerThrew == Rejected("logger")

\* get, from the rows of its SELECT to its return value, with the calls of
\* log on the way: the one in the try block is caught with JSON.parse's
\* errors.
GetResultLogging(rows, t) ==
  IF Len(rows) = 0
  THEN IF "get_notfound" \in logger THEN LoggerThrew ELSE Null
  ELSE LET expiresAtRaw == rows[1][2]
           expiresAt == IF expiresAtRaw # SqlNull THEN parseInt(expiresAtRaw)
                        ELSE [nan |-> TRUE, n |-> 0]
       IN IF expiresAtRaw # SqlNull /\ ~expiresAt.nan /\ expiresAt.n <= t
          THEN IF "get_expired" \in logger THEN LoggerThrew ELSE Null
          ELSE IF JSONparse(rows[1][1]).ok /\ "get_parsed" \notin logger
          THEN JSONparse(rows[1][1]).v
          ELSE IF "get_raw" \in logger THEN LoggerThrew ELSE Str(rows[1][1])

\* await this.init() of the second store.
InitStmtsLogging == IF linitialized THEN <<>> ELSE <<"create_table", "create_index">>

get_logging(c, key) ==
  LET cl == [op |-> "get", key |-> key, value |-> Undefined, options |-> NoOptions]
  IN /\ linitialized' = TRUE
     /\ UNCHANGED <<logger, ltable>>
     /\ IF "get" \in logger
        THEN /\ lret' = [lret EXCEPT ![c] = LoggerThrew]
             /\ lsent' = [lsent EXCEPT ![c] = InitStmtsLogging]
        ELSE /\ lret' = [lret EXCEPT ![c] =
                          GetResultLogging(SqlSelect(ltable, BodyStmt(cl, clock)), clock)]
             /\ lsent' = [lsent EXCEPT ![c] = InitStmtsLogging \o <<"select">>]

set_logging(c, key, value, options) ==
  LET cl == [op |-> "set", key |-> key, value |-> value, options |-> options]
  IN /\ linitialized' = TRUE
     /\ UNCHANGED logger
     /\ IF "set" \in logger
        THEN /\ lret' = [lret EXCEPT ![c] = LoggerThrew]
             /\ lsent' = [lsent EXCEPT ![c] = InitStmtsLogging]
             /\ UNCHANGED ltable
        ELSE /\ ltable' = SqlUpsert(ltable, BodyStmt(cl, clock))
             /\ lsent' = [lsent EXCEPT ![c] = InitStmtsLogging \o <<"upsert">>]
             /\ lret' = [lret EXCEPT ![c] =
                          IF "set_stored" \in logger THEN LoggerThrew ELSE Undefined]

delete_logging(c, key) ==
  LET cl == [op |-> "delete", key |-> key, value |-> Undefined, options |-> NoOptions]
  IN /\ linitialized' = TRUE
     /\ UNCHANGED logger
     /\ IF "delete" \in logger
        THEN /\ lret' = [lret EXCEPT ![c] = LoggerThrew]
             /\ lsent' = [lsent EXCEPT ![c] = InitStmtsLogging]
             /\ UNCHANGED ltable
        ELSE /\ ltable' = SqlDelete(ltable, BodyStmt(cl, clock))
             /\ lsent' = [lsent EXCEPT ![c] = InitStmtsLogging \o <<"delete">>]
             /\ lret' = [lret EXCEPT ![c] = Undefined]

cleanup_logging(c) ==
  LET cl == [op |-> "cleanup", key |-> "", value |-> Undefined, options |-> NoOptions]
      n == SqlCountExpired(ltable, BodyStmt(cl, clock))[1][1]
  IN /\ linitialized' = TRUE
     /\ UNCHANGED logger
     /\ IF "cleanup" \in logger
        THEN /\ lret' = [lret EXCEPT ![c] = LoggerThrew]
             /\ lsent' = [lsent EXCEPT ![c] = InitStmtsLogging]
             /\ UNCHANGED ltable
        ELSE /\ ltable' = IF n > 0
                          THEN SqlDeleteExpired(ltable, [sql |-> "delete_expired",
                                                         now |-> clock])
                          ELSE ltable
             /\ lsent' = [lsent EXCEPT ![c] =
                            InitStmtsLogging \o <<"count">>
                              \o (IF n > 0 THEN <<"delete_expired">> ELSE <<>>)]
             /\ lret' = [lret EXCEPT ![c] =
                          IF n > 0 /\ "cleanup_deleted" \in logger THEN LoggerThrew
                          ELSE Num(n)]

NextLogging ==
  \/ Tick
  \/ \E c \in Clients, k \in AsyncKeys :
       get(c, k) /\ get_logging(c, k) /\ UNCHANGED <<mvars, avars>>
  \/ \E c \in Clients, k \in AsyncKeys, v \in Values, o \in Options :
       set(c, k, v, o) /\ set_logging(c, k, v, o) /\ UNCHANGED <<mvars, avars>>
  \/ \E c \in Clients, k \in AsyncKeys :
       delete(c, k) /\ delete_logging(c, k) /\ UNCHANGED <<mvars, avars>>
  \/ \E c \in Clients : cleanup(c) /\ cleanup_logging(c) /\ UNCHANGED <<mvars, avars>>

\* new SQLiteStorage(adapter, { logger }) beside new SQLiteStorage(adapter).
InitLogging == \E l \in Loggers : Constructed(l)

SpecLogging == InitLogging /\ [][NextLogging]_vars

\* Two SQLiteStorage instances with the default logger, each on a database
\* of its own: one caller makes every get, set and delete on both at the
\* same clock reading, and calls cleanup(), at any point, on the first only.
NextCleanupInserted ==
  \/ Tick
  \/ \E c \in Clients, k \in Keys :
       get(c, k) /\ get_logging(c, k) /\ UNCHANGED <<mvars, avars>>
  \/ \E c \in Clients, k \in Keys, v \in BothValues, o \in Options :
       set(c, k, v, o) /\ set_logging(c, k, v, o) /\ UNCHANGED <<mvars, avars>>
  \/ \E c \in Clients, k \in Keys :
       delete(c, k) /\ delete_logging(c, k) /\ UNCHANGED <<mvars, avars>>
  \/ \E c \in Clients : cleanup(c) /\ UNCHANGED <<mvars, avars, lvars>>

SpecCleanupInserted == Init /\ [][NextCleanupInserted]_vars

(***************************************************************************)
(* Vocabulary of the properties                                            *)
(***************************************************************************)
\* The number a stored timestamp text denotes ("12" or "12.5").
NumericValue(s) ==
  2 * IntegerPrefix(s).n + (IF \E i \in 1..Len(s) : s[i] = "." THEN 1 ELSE 0)

\* The row carries an expires_at that is at or before time t.
ExpiredAt(row, t) ==
  row.present /\ row.expires_at # SqlNull /\ NumericValue(row.expires_at) <= t

\* The last call of c was a get: ret[c] is its result, now[c] its clock reading.
GetReturned(c) == call[c].op = "get"

\* The call c completed last was a set of key k (in an action formula: the
\* call right before the one this step makes).
JustSet(c, k) == call[c].op = "set" /\ call[c].key = k

\* The two schema statements, and the statements of the public methods.
SchemaSql == {"create_table", "create_index"}

DataSql == {"select", "upsert", "delete", "count", "delete_expired"}

(***************************************************************************)
(* C1.  Round trip: set(k, v) followed immediately by get(k) returns a     *)
(* value structurally equal to v.                                          *)
(***************************************************************************)
C1_RoundTrip ==
  [][\A c \in Clients, k \in Keys :
       (get(c, k) /\ JustSet(c, k) /\ ~call[c].options.given /\ clock = now[c])
         => ret'[c] = call[c].value]_vars

(***************************************************************************)
(* C2.  After set(k, v, {ttl}) with ttl > 0 at time t, a get(k) issued     *)
(* immediately (the next call, at the same clock reading) returns v, and a *)
(* get(k) issued at a time >= t + ttl * 1000 with no set of k in between   *)
(* returns null.                                                           *)
(***************************************************************************)
C2_TtlThenExpiry ==
  [][\A c \in Clients, k \in Keys :
       (get(c, k) /\ written[k].op = "set" /\ TtlGiven(written[k].options))
         => /\ (JustSet(c, k) /\ clock = written[k].now) => ret'[c] = written[k].value
            /\ clock >= written[k].now + written[k].options.ttl => ret'[c] = Null]_vars

(***************************************************************************)
(* C3.  Last write wins: after set(k, v1) then set(k, v2), with any ttl    *)
(* options, get(k) returns v2, and the row holds the text of v2 and the    *)
(* expiration of the second call only.                                     *)
(***************************************************************************)
C3_LastWriteWins ==
  [][\A c \in Clients, k \in Keys :
       (get(c, k) /\ JustSet(c, k) /\ written[k].existed /\ clock = now[c])
         => /\ ret'[c] = call[c].value
            /\ table[k].present
            /\ table[k].value = SerializedValue(call[c].value)
            /\ table[k].expires_at = ExpiresAtParam(call[c].options, now[c])]_vars

(***************************************************************************)
(* C4.  get(k) of a key that was never set, or whose row is absent,        *)
(* returns null, whatever happened to the other keys.                      *)
(***************************************************************************)
C4_GetMissing ==
  \A c \in Clients :
    (GetReturned(c) /\ (written[call[c].key].op = "none" \/ ~table[call[c].key].present))
      => ret[c] = Null

C4_Witness ==
  \E c \in Clients, k \in Keys :
    /\ GetReturned(c)
    /\ written[call[c].key].op = "none"
    /\ k # call[c].key
    /\ table[k].present
    /\ ret[c] = Null

(***************************************************************************)
(* C5.  An entry stored by set(k, v) without a ttl never expires: at any   *)
(* later time, after any gets and cleanups, get(k) returns v as long as no *)
(* set or delete of k came in between.                                     *)
(***************************************************************************)
C5_NoTtlNeverExpires ==
  \A c \in Clients :
    LET w == written[call[c].key]
    IN (GetReturned(c) /\ w.op = "set" /\ ~w.options.given) => ret[c] = w.value

(***************************************************************************)
(* C6.  After delete(k) has completed, get(k) returns null until the next  *)
(* set of k, whatever the row of k held.                                   *)
(***************************************************************************)
C6_GetAfterDelete ==
  \A c \in Clients :
    (GetReturned(c) /\ written[call[c].key].op = "delete") => ret[c] = Null

C6_Witness ==
  \E c \in Clients :
    /\ GetReturned(c)
    /\ written[call[c].key].op = "delete"
    /\ written[call[c].key].existed
    /\ ret[c] = Null

(***************************************************************************)
(* C7.  delete(k) of a key that has no row completes and leaves every row  *)
(* of the table (value, expires_at, created_at, updated_at) as it was.     *)
(***************************************************************************)
C7_DeleteMissingFrame ==
  [][\A c \in Clients, k \in Keys :
       (delete(c, k) /\ ~table[k].present) => (table' = table /\ ret'[c] = Undefined)]_vars

C7_Witness ==
  \E c \in Clients, k \in Keys :
    /\ call[c].op = "delete"
    /\ written[call[c].key].op = "delete"
    /\ ~written[call[c].key].existed
    /\ k # call[c].key
    /\ table[k].present

(***************************************************************************)
(* C8.  cleanup() run at timestamp T removes exactly the rows whose        *)
(* expires_at is present and <= T, returns the number of rows it removed,  *)
(* and a second cleanup() right after it, at the same timestamp, returns 0.*)
(***************************************************************************)
C8_CleanupExact ==
  [][\A c \in Clients :
       cleanup(c)
         => /\ table' = [k \in Keys |->
                           IF ExpiredAt(table[k], clock) THEN NoRow ELSE table[k]]
            /\ ret'[c] = Num(Cardinality({k \in Keys : table[k].present
                                                         /\ ~table'[k].present}))
            /\ (call[c].op = "cleanup" /\ now[c] = clock) => ret'[c] = Num(0)]_vars

(***************************************************************************)
(* C9.  When no row is expired at the time of the call, cleanup() returns  *)
(* 0, sends no delete statement and leaves the table unchanged.            *)
(***************************************************************************)
C9_CleanupNothingExpired ==
  [][\A c \in Clients :
       (cleanup(c) /\ \A k \in Keys : ~ExpiredAt(table[k], clock))
         => /\ ret'[c] = Num(0)
            /\ \A i \in 1..Len(sent'[c]) : sent'[c][i] # "delete_expired"
            /\ table' = table]_vars

(***************************************************************************)
(* C10.  get(k) never changes the table; when the row of k is expired, get *)
(* returns null and the row is still there afterwards.                     *)
(***************************************************************************)
C10_GetReadOnly ==
  [][\A c \in Clients, k \in Keys :
       get(c, k)
         => /\ table' = table
            /\ ExpiredAt(table[k], clock) => (ret'[c] = Null /\ table'[k].present)]_vars

C10_Witness ==
  \E c \in Clients :
    /\ GetReturned(c)
    /\ ExpiredAt(table[call[c].key], now[c])
    /\ ret[c] = Null

(***************************************************************************)
(* C11.  The expiration boundary is non-strict in every operation: an      *)
(* entry whose expires_at equals the current timestamp is expired for get  *)
(* (not-found, in both backends) and is counted and removed by cleanup; an *)
(* entry whose expires_at is the current timestamp + 1 ms is live.         *)
(***************************************************************************)
C11_BoundaryNonStrict ==
  [][/\ \A c \in Clients, k \in Keys :
          (get(c, k) /\ MemoryStorage_get(c, k))
            => /\ (table[k].present /\ table[k].expires_at # SqlNull)
                    => /\ NumericValue(table[k].expires_at) = clock => ret'[c] = Null
                       /\ NumericValue(table[k].expires_at) = clock + 2 => ret'[c] # Null
               /\ (data[k].present /\ data[k].expiresAt.defined)
                    => /\ data[k].expiresAt.n = clock => mret'[c] = Null
                       /\ data[k].expiresAt.n = clock + 2 => mret'[c] = data[k].value
     /\ \A c \in Clients :
          cleanup(c)
            => LET due == {k \in Keys : /\ table[k].present
                                        /\ table[k].expires_at # SqlNull
                                        /\ NumericValue(table[k].expires_at) = clock}
               IN /\ \A k \in due : ~table'[k].present
                  /\ ret'[c].n >= Cardinality(due)
                  /\ \A k \in Keys :
                       (/\ table[k].present
                        /\ table[k].expires_at # SqlNull
                        /\ NumericValue(table[k].expires_at) = clock + 2)
                         => table'[k] = table[k]]_vars

\* A get of one key at the very timestamp of its expires_at found it expired
\* in both backends (the MemoryStorage dropped the entry), and a cleanup at
\* that timestamp then removed its row and the row of another key due then.
C11_Witness ==
  \E c \in Clients, k1 \in Keys, k2 \in Keys :
    /\ call[c].op = "cleanup"
    /\ now[c] = clock
    /\ ret[c] = Num(2)
    /\ written[k1].op = "set"
    /\ TtlGiven(written[k1].options)
    /\ written[k1].now + written[k1].options.ttl = clock
    /\ ~data[k1].present
    /\ ~table[k1].present
    /\ data[k2].present
    /\ data[k2].expiresAt.defined
    /\ data[k2].expiresAt.n = clock
    /\ ~table[k2].present

(***************************************************************************)
(* C12.  created_at is fixed by the set that inserted the row: a later set *)
(* on the key, while the row exists, leaves created_at as it was and       *)
(* replaces value, expires_at and updated_at (a set without ttl clears the *)
(* expiration).                                                            *)
(***************************************************************************)
C12_CreatedAtFixed ==
  [][\A c \in Clients, k \in Keys, v \in Values, o \in Options :
       (set(c, k, v, o) /\ table[k].present)
         => /\ table'[k].present
            /\ table'[k].created_at = table[k].created_at
            /\ table'[k].value = SerializedValue(v)
            /\ table'[k].updated_at = TimeToString(clock)
            /\ IF o.given
               THEN /\ table'[k].expires_at # SqlNull
                    /\ NumericValue(table'[k].expires_at) = clock + o.ttl
               ELSE table'[k].expires_at = SqlNull]_vars

\* A row that was set again, without ttl, a millisecond after it was inserted.
C12_Witness ==
  \E c \in Clients, k \in Keys :
    /\ JustSet(c, k)
    /\ ~call[c].options.given
    /\ written[k].existed
    /\ table[k].present
    /\ table[k].expires_at = SqlNull
    /\ table[k].updated_at = TimeToString(now[c])
    /\ table[k].created_at # table[k].updated_at

(***************************************************************************)
(* C20.  The two backends implement the same contract: for every sequence  *)
(* of get, set and delete calls with the same arguments at the same clock  *)
(* readings, every get returns the same result from both.                  *)
(***************************************************************************)
C20_SameContract ==
  \A c \in Clients : GetReturned(c) => ret[c] = mret[c]

(***************************************************************************)
(* C17 as stated.  After initialization, every public operation (get, set, *)
(* delete, cleanup) sends exactly one statement to the adapter.            *)
(***************************************************************************)
C17_OneStatementEach ==
  [][\A c \in Clients :
       (/\ initialized
        /\ \/ cleanup(c)
           \/ \E k \in Keys : get(c, k) \/ delete(c, k)
           \/ \E k \in Keys, v \in Values, o \in Options : set(c, k, v, o))
         => Len(sent'[c]) = 1]_vars

(***************************************************************************)
(* C17.  After initialization, get, set and delete each send exactly one   *)
(* statement; cleanup sends its count query and, only when the count is    *)
(* greater than 0, a second statement, the delete.                         *)
(***************************************************************************)
C17_StatementsPerOperation ==
  [][\A c \in Clients :
       initialized
         => /\ \A k \in Keys : get(c, k) => sent'[c] = <<"select">>
            /\ \A k \in Keys, v \in Values, o \in Options :
                 set(c, k, v, o) => sent'[c] = <<"upsert">>
            /\ \A k \in Keys : delete(c, k) => sent'[c] = <<"delete">>
            /\ cleanup(c)
                 => sent'[c] = IF ret'[c] = Num(0) THEN <<"count">>
                               ELSE <<"count", "delete_expired">>]_vars

\* A cleanup on the initialized store sent two statements.
C17_Witness ==
  \E c \in Clients :
    /\ call[c].op = "cleanup"
    /\ sent[c] = <<"count", "delete_expired">>
    /\ ret[c] # Num(0)

(***************************************************************************)
(* C13.  Initialization happens once under concurrent first use: when      *)
(* several operations are issued before initialization has completed,      *)
(* CREATE TABLE and CREATE INDEX are each sent exactly once in total.      *)
(***************************************************************************)
C13_InitOnce ==
  /\ created.table <= 1
  /\ created.index <= 1
  /\ initialized => (created.table = 1 /\ created.index = 1)

(***************************************************************************)
(* C14.  Once initialization has completed, no operation called afterwards *)
(* sends CREATE TABLE or CREATE INDEX: its first statement is its own, and *)
(* a call that began with its own statement never sends a schema one.      *)
(***************************************************************************)
C14_InitIsNoOpAfterwards ==
  [][\A c \in Callers :
       /\ (initialized /\ pc[c] = "idle" /\ pc'[c] # "idle")
            => (pc'[c] \in DataSql /\ created' = created)
       /\ (pc[c] # "idle" /\ sent[c][1] \in DataSql)
            => \A i \in 1..Len(sent'[c]) : sent'[c][i] \in DataSql]_vars

\* A get called on the initialized store has returned after one statement,
\* and the schema statements were sent once.
C14_Witness ==
  \E c \in Callers :
    /\ initialized
    /\ pc[c] = "idle"
    /\ call[c].op = "get"
    /\ sent[c] = <<"select">>
    /\ created.table = 1
    /\ created.index = 1

(***************************************************************************)
(* C15.  No operation sends its select, upsert or delete to the adapter    *)
(* before the database has run both schema statements, CREATE TABLE before *)
(* CREATE INDEX, under any interleaving of concurrent operations.          *)
(***************************************************************************)
C15_SchemaBeforeData ==
  [][/\ \A c \in Callers :
          (pc'[c] \in DataSql /\ pc'[c] # pc[c]) => {"table", "index"} \subseteq schema'
     /\ "index" \in schema' => "table" \in schema']_vars

\* One caller's select is in flight while the other caller, which began
\* before initialization had completed, still awaits its CREATE INDEX.
C15_Witness ==
  \E c1 \in Callers, c2 \in Callers :
    /\ pc[c1] = "select"
    /\ sent[c1] = <<"create_table", "create_index", "select">>
    /\ pc[c2] = "create_index"

(***************************************************************************)
(* C16.  When the adapter fails on a statement of get, set, delete or      *)
(* cleanup, the operation fails with that same error, sends no further     *)
(* statement, and the table is left as the backing store left it.          *)
(***************************************************************************)
C16_RejectionPropagates ==
  [][\A c \in Clients :
       /\ \A e \in Errors :
            execute_rejects(c, e)
              => /\ ret'[c] = Rejected(e)
                 /\ pc'[c] = "idle"
                 /\ sent'[c] = sent[c]
                 /\ table' = table
       /\ (ret[c].t = "error" /\ sent'[c] # sent[c])
            => (pc[c] = "idle" /\ ret'[c] = Pending)]_vars

\* The adapter rejected the DELETE of a cleanup whose count it had answered:
\* the call was rejected and the counted row is still there.
C16_Witness ==
  \E c \in Clients, k \in Keys :
    /\ call[c].op = "cleanup"
    /\ ret[c] = Rejected("SQLITE_BUSY")
    /\ pc[c] = "idle"
    /\ sent[c] = <<"count", "delete_expired">>
    /\ count[c] = 1
    /\ table[k].present
    /\ SqlExpiredFilter(table[k], now[c])

(***************************************************************************)
(* C18.  The row of a key is entirely the one written by the upsert the    *)
(* database ran last for it: value, expires_at and updated_at all come     *)
(* from that one set call, also when two set calls on the key overlap.     *)
(***************************************************************************)
C18_LastCommitWins ==
  \A k \in Keys :
    (written[k].op = "set" /\ table[k].present)
      => /\ table[k].value = SerializedValue(written[k].value)
         /\ table[k].expires_at = ExpiresAtParam(written[k].options, written[k].now)
         /\ table[k].updated_at = TimeToString(written[k].now)

\* Two overlapping sets of one key, with different values and options: the
\* caller that read the clock first had its upsert run last, over the
\* other's row.
C18_Witness ==
  \E c1 \in Callers, c2 \in Callers, k \in Keys :
    /\ JustSet(c1, k) /\ JustSet(c2, k)
    /\ pc[c1] = "idle" /\ pc[c2] = "idle"
    /\ call[c1].value # call[c2].value
    /\ call[c1].options # call[c2].options
    /\ now[c1] < now[c2]
    /\ written[k].existed
    /\ written[k].now = now[c1]
    /\ written[k].value = call[c1].value
    /\ table[k].updated_at = TimeToString(now[c1])
    /\ table[k].created_at = TimeToString(now[c2])

(***************************************************************************)
(* C19.  The logging hook is purely observational: two stores that differ  *)
(* only in their logger, given the same operations, clock readings and     *)
(* adapter responses, send the same statements and return the same results *)
(* and errors.                                                             *)
(***************************************************************************)
C19_LoggerObservational ==
  \A c \in Clients : lsent[c] = sent[c] /\ lret[c] = ret[c] /\ ltable = table

(***************************************************************************)
(* C21.  MemoryStorage.size is the number of entries held: it starts at 0, *)
(* a set of a new key adds one, a set of a key that has an entry leaves it *)
(* as it was, a delete of a key that has an entry takes one away, and      *)
(* clear() makes it 0, after which every get returns null.                 *)
(***************************************************************************)
C21_SizeCountsEntries ==
  /\ MemoryStorage_size = 0
  /\ [][\A c \in Clients :
          /\ \A k \in Keys, v \in BothValues, o \in Options :
               MemoryStorage_set(c, k, v, o)
                 => MemoryStorage_size' =
                      IF data[k].present THEN MemoryStorage_size
                      ELSE MemoryStorage_size + 1
          /\ \A k \in Keys :
               (MemoryStorage_delete(c, k) /\ data[k].present)
                 => MemoryStorage_size' = MemoryStorage_size - 1
          /\ MemoryStorage_clear(c) => MemoryStorage_size' = 0
          /\ \A k \in Keys :
               (MemoryStorage_get(c, k) /\ call[c].op = "clear") => mret'[c] = Null]_vars

\* clear() was called on a store of two entries, one of them without
\* expiration, and left none.
C21_Witness ==
  \E c \in Clients :
    /\ call[c].op = "clear"
    /\ msize[c] = 2
    /\ MemoryStorage_size = 0

C23_CleanupUnobservable ==
  \A c \in Clients : GetReturned(c) => ret[c] = lret[c]

\* A get returned null from both stores for a key whose row cleanup() had
\* removed from the one and that the other, never cleaned, still holds.
C23_Witness ==
  \E c \in Clients :
    /\ GetReturned(c)
    /\ ret[c] = Null
    /\ lret[c] = Null
    /\ ~table[call[c].key].present
    /\ ltable[call[c].key].present
    /\ written[call[c].key].op = "set"

(***************************************************************************)
(* C24.  cleanup never removes a row that is live at the timestamp it      *)
(* captured: a row with no expires_at, or with an expires_at greater than  *)
(* that timestamp, is left as it was.                                      *)
(***************************************************************************)
C24_CleanupSparesLive ==
  [][\A c \in Clients :
       cleanup(c)
         => \A k \in Keys :
              (table[k].present /\ ~ExpiredAt(table[k], clock)) => table'[k] = table[k]]_vars

(***************************************************************************)
(* C25.  Under a non-decreasing clock, once get(k) has returned null       *)
(* because the entry was expired, every later get(k) returns null until    *)
(* the next set of k, in both backends, whatever calls come in between.    *)
(***************************************************************************)
C25_ExpiredStaysExpired ==
  [][/\ clock' >= clock
     /\ \A c \in Clients, k \in Keys :
          (get(c, k) /\ MemoryStorage_get(c, k))
            => /\ "sqlite" \in lapsed[k] => ret'[c] = Null
               /\ "memory" \in lapsed[k] => mret'[c] = Null]_vars

\* A get of a key returned null in both backends after an earlier get had
\* found the entry expired in both (its row was in the table then) and a
\* cleanup in between had removed the row; no set or delete of the key came
\* after the set that stored it.
C25_Witness ==
  \E c \in Clients :
    LET k == call[c].key
    IN /\ GetReturned(c)
       /\ lapsed[k] = {"sqlite", "memory"}
       /\ ret[c] = Null
       /\ mret[c] = Null
       /\ written[k].op = "set"
       /\ ~table[k].present
       /\ ~data[k].present

(***************************************************************************)
(* C26.  When the adapter fails on CREATE TABLE or on CREATE INDEX, the    *)
(* operation that triggered init() fails without sending a statement of    *)
(* its own, the store stays uninitialized, and the next operation starts   *)
(* with CREATE TABLE and sends both schema statements before its own.      *)
(***************************************************************************)
C26_FailedInitIsRetried ==
  [][\A c \in Clients :
       /\ \A e \in Errors :
            (execute_rejects(c, e) /\ pc[c] \in SchemaSql)
              => /\ ret'[c] = Rejected(e)
                 /\ pc'[c] = "idle"
                 /\ sent'[c] = sent[c]
                 /\ \A i \in 1..Len(sent'[c]) : sent'[c][i] \in SchemaSql
                 /\ ~initialized'
                 /\ table' = table
       /\ (pc[c] = "idle" /\ ~initialized /\ pc'[c] # "idle")
            => (pc'[c] = "create_table" /\ sent'[c] = <<"create_table">>)
       /\ (pc[c] \in SchemaSql /\ pc'[c] \in DataSql)
            => sent'[c] = <<"create_table", "create_index", pc'[c]>>]_vars

\* CREATE INDEX was rejected in the first call; the next call, a get, sent
\* CREATE TABLE and CREATE INDEX again, then its SELECT, and returned.
C26_Witness ==
  \E c \in Clients :
    /\ created = [table |-> 2, index |-> 2]
    /\ initialized
    /\ pc[c] = "idle"
    /\ call[c].op = "get"
    /\ sent[c] = <<"create_table", "create_index", "select">>
    /\ ret[c] = Null

(***************************************************************************)
(* C27.  set(k, v, {ttl: 0}) is treated exactly like set(k, v) without a   *)
(* ttl in both backends: the entry is stored with no expires_at, as the    *)
(* set without ttl would store it, and it does not expire: cleanup leaves  *)
(* it and every later get finds it, until the next set or delete of k.     *)
(***************************************************************************)
C27_TtlZeroIsNoTtl ==
  [][\A c \in Clients, k \in Keys :
       /\ \A v \in BothValues :
            (set(c, k, v, TtlZero) /\ MemoryStorage_set(c, k, v, TtlZero))
              => /\ table'[k].present
                 /\ table'[k].expires_at = SqlNull
                 /\ table'[k] =
                      SqlUpsert(table, BodyStmt([op |-> "set", key |-> k, value |-> v,
                                                 options |-> NoOptions], clock))[k]
                 /\ data'[k] = Item(v, NoExpiry)
       /\ (written[k].op = "set" /\ written[k].options = TtlZero)
            => /\ (get(c, k) /\ MemoryStorage_get(c, k))
                    => (ret'[c] # Null /\ mret'[c] = written[k].value)
               /\ cleanup(c) => (table'[k].present /\ table'[k] = table[k])]_vars

\* An entry set with a ttl of 0 was read a millisecond later, after a
\* cleanup of that millisecond that removed the expired row of another key:
\* both backends returned it.
C27_Witness ==
  \E c \in Clients, j \in Keys :
    LET k == call[c].key
    IN /\ GetReturned(c)
       /\ written[k].op = "set"
       /\ written[k].options = TtlZero
       /\ now[c] > written[k].now
       /\ ret[c] = written[k].value
       /\ mret[c] = written[k].value
       /\ table[k].expires_at = SqlNull
       /\ written[j].op = "set"
       /\ TtlGiven(written[j].options)
       /\ ~table[j].present

=============================================================================
